---- MODULE Spec2Model ----
(***************************************************************************)
(* Model of the session and command orchestration code of the FinAssist    *)
(* repository: the file-backed MemoryStore (memory_storage.py), the        *)
(* credential collection (database.py), the token handling and HTTP        *)
(* routes of main.py, the chat page (app.py with GraniteHF.chat of         *)
(* model_provider.py) and the voice commands (voice_commands.py).          *)
(***************************************************************************)
EXTENDS Integers, Sequences, FiniteSets, TLC

\* ---------------------------------------------------------------- bounds
NumProfiles == 2
NumKeys     == 2
NumValues   == 2
NumSessions == 2
MaxOps      == 2
MaxRaceOps  == 2
MaxRestarts == 1
NumEmails    == 2
NumPasswords == 2
NumSalts     == 2
MaxTime      == 32
MaxIssueTime == 1
MaxCookieLen == 3
MaxHeaderLen == 3
NumRequests  == 2
MaxTurns       == 2
MaxPromptParts == 3
MaxReplyParts  == 3
MaxPhrases     == 2
MaxSessionSteps == 1

Profiles == {<<"profile", i>> : i \in 1..NumProfiles}
Keys     == {<<"key", i>> : i \in 1..NumKeys}
Values   == {<<"value", i>> : i \in 1..NumValues}
Sessions == 1..NumSessions
Emails    == 1..NumEmails
Passwords == 1..NumPasswords
Salts     == 1..NumSalts

VARIABLES
    file,      \* content of memories.json
    store,     \* store[s]: the MemoryStore object held by session s
    mpc,       \* mpc[s]: where session s is inside MemoryStore code
    op,        \* op[s]: the mutation session s is executing
    nops,      \* number of mutations started (bounds the runs)
    boots,     \* number of restarts of the process so far
    last,      \* history: the mutation that returned most recently
    ledger,    \* history: the mapping a serialised store would hold
    now,       \* the clock, in minutes
    users,     \* the users collection of the database
    jar,       \* the client's access_token cookie
    is_authenticated, \* the client's is_authenticated cookie
    resp,      \* the response to the latest HTTP request
    found,     \* the result of the latest token search
    tok,       \* history: the latest call of create_access_token
    xreq,      \* the cookie and Authorization header of a request under search
    hreq,      \* history: the latest request
    dbres,     \* history: the latest call of the persistence layer
    plain,     \* history: the email/password pairs of the accounts created
    seen,      \* history: why requests were unauthenticated, and the answers
    sreq,      \* sreq[r]: the POST /signup request r and where its handler is
    chat_input,   \* the text submitted in st.chat_input, not yet handled
    messages,     \* st.session_state.messages, the transcript
    model_ready,  \* st.session_state.model_ready
    cpc,          \* where the chat script is: "idle", or "calling" granite.chat
    turn,         \* history: the turn being handled, or the latest one
    current_page, \* st.session_state.current_page
    voice,        \* history: the latest call of process_voice_command
    transcribed_text, \* the text of the voice recording, not yet handled
    profile_id    \* the Profile ID in the text input of the sidebar

memVars == <<file, store, mpc, op, nops, boots, last, ledger>>
authVars == <<now, users, jar, is_authenticated, resp, found, tok, xreq, hreq, dbres, plain, seen>>
chatVars == <<chat_input, messages, model_ready, cpc, turn, current_page, voice,
              transcribed_text, profile_id>>
vars == <<file, store, mpc, op, nops, boots, last, ledger,
          now, users, jar, is_authenticated, resp, found, tok, xreq, hreq, dbres, plain, seen,
          sreq, chat_input, messages, model_ready, cpc, turn, current_page, voice,
          transcribed_text, profile_id>>

\* ------------------------------------------------- Python dict helpers
EmptyDict == << >>

\* d[k] = v on a dict
Put(d, k, v) == [x \in (DOMAIN d) \cup {k} |-> IF x = k THEN v ELSE d[x]]

\* d.get(k, {})
GetOr(d, k) == IF k \in DOMAIN d THEN d[k] ELSE EmptyDict

\* ------------------------------------------------------ backing file
\* The file is absent, holds a JSON document, or holds text that is not one
\* (the empty file left by open(path, "w"), or the output of one writer
\* followed by the tail of a longer output of another).  size is the length
\* of the text, counted in entries: names and values have one length.
AbsentFile == [kind |-> "absent", size |-> 0]
Truncated  == [kind |-> "partial", size |-> 0]
Garbled(n) == [kind |-> "partial", size |-> n]

RECURSIVE SumOver(_, _)
SumOver(d, ks) ==
    IF ks = {} THEN 0
    ELSE LET k == CHOOSE x \in ks : TRUE
         IN  1 + Cardinality(DOMAIN d[k]) + SumOver(d, ks \ {k})

\* length of the text json.dump produces for data
Size(data) == 1 + SumOver(data, DOMAIN data)

\* json.dump(self.data, f, indent=2) followed by the close of the file
json_dump(data) == [kind |-> "json", doc |-> data, size |-> Size(data)]

\* _load as it would be if it took unreadable content for an empty collection
_load_lenient(f) ==
    IF f.kind = "json" THEN [ok |-> TRUE, data |-> f.doc]
    ELSE [ok |-> TRUE, data |-> EmptyDict]

\* MemoryStore._load: the value returned, or "JSONDecodeError"
_load(f) ==
    IF f.kind = "absent" THEN [ok |-> TRUE, data |-> EmptyDict]
    ELSE IF f.kind = "json" THEN [ok |-> TRUE, data |-> f.doc]
    ELSE [ok |-> FALSE, data |-> EmptyDict]

\* a get_all that forgets
get_all_nothing(st) == EmptyDict

\* MemoryStore.get_all
get_all(st) == GetOr(st.data, st.profile_id)

\* a session without a store; profile 0 is nobody's
NoStore == [profile_id |-> <<"profile", 0>>, data |-> EmptyDict]
NoOp    == [op |-> "none"]

\* ------------------------------------------------- MemoryStore actions
\* MemoryStore.__init__: session s builds its store for profile p; a
\* JSONDecodeError of _load leaves the session without a store
Construct(s, p) ==
    /\ mpc[s] = "none"
    /\ UNCHANGED <<authVars, sreq, chatVars>>
    /\ _load(file).ok
    /\ store' = [store EXCEPT ![s] = [profile_id |-> p, data |-> _load(file).data]]
    /\ mpc' = [mpc EXCEPT ![s] = "idle"]
    /\ UNCHANGED <<file, op, nops, boots, last, ledger>>

\* set as it would be if it replaced the profile's mapping by the new pair
set_data_replacing(st, k, v) ==
    Put(st.data, st.profile_id, Put(EmptyDict, k, v))

\* the in-memory part of set (lines 21-23)
set_data(st, k, v) ==
    LET d1 == IF st.profile_id \notin DOMAIN st.data
              THEN Put(st.data, st.profile_id, EmptyDict) ELSE st.data
    IN  Put(d1, st.profile_id, Put(d1[st.profile_id], k, v))

\* clear as it would be if it saved without emptying the mapping
clear_data_keeping(st) == st.data

\* the in-memory part of clear (line 31)
clear_data(st) == Put(st.data, st.profile_id, EmptyDict)

\* what a call records about the state it started from
Started(s, name, k, v) ==
    [op |-> name, sess |-> s, profile |-> store[s].profile_id,
     key |-> k, value |-> v, boot |-> boots, before |-> get_all(store[s]),
     dataBefore |-> store[s].data, fileBefore |-> file]

\* MemoryStore.set up to and including open(file_path, "w") of save
SetCall(s, k, v) ==
    /\ mpc[s] = "idle"
    /\ UNCHANGED <<authVars, sreq, chatVars>>
    /\ nops < MaxOps
    /\ nops' = nops + 1
    /\ store' = [store EXCEPT ![s].data = set_data(store[s], k, v)]
    /\ file' = Truncated
    /\ mpc' = [mpc EXCEPT ![s] = "dump"]
    /\ op' = [op EXCEPT ![s] = Started(s, "set", k, v)]
    /\ UNCHANGED <<boots, last, ledger>>

\* MemoryStore.clear: with an entry for the profile, empty it and go on to
\* open(file_path, "w") of save; without one, return at once
Clear(s) ==
    /\ mpc[s] = "idle"
    /\ UNCHANGED <<authVars, sreq, chatVars>>
    /\ nops < MaxOps
    /\ nops' = nops + 1
    /\ UNCHANGED boots
    /\ IF store[s].profile_id \in DOMAIN store[s].data
       THEN /\ store' = [store EXCEPT ![s].data = clear_data(store[s])]
            /\ file' = Truncated
            /\ mpc' = [mpc EXCEPT ![s] = "dump"]
                    /\ op' = [op EXCEPT ![s] = Started(s, "clear", "none", "none")]
            /\ UNCHANGED <<last, ledger>>
       ELSE /\ last' = Started(s, "clear_absent", "none", "none")
            /\ UNCHANGED <<file, store, mpc, op, ledger>>

\* the serialised effect of a returned mutation on the collection
Apply(led, o) ==
    IF o.op = "set"
    THEN Put(led, o.profile, Put(GetOr(led, o.profile), o.key, o.value))
    ELSE IF o.profile \in DOMAIN led THEN Put(led, o.profile, EmptyDict)
    ELSE led

\* the text on disk once a writer has written data from offset 0 through the
\* handle it opened earlier and closed it: its document, followed by the tail
\* of whatever longer text another handle has written meanwhile
Written(f, data) ==
    IF f.size > Size(data) THEN Garbled(f.size) ELSE json_dump(data)

\* json.dump and the close of the file in save; set or clear returns
SaveDump(s) ==
    /\ mpc[s] = "dump"
    /\ UNCHANGED <<authVars, sreq, chatVars>>
    /\ file' = Written(file, store[s].data)
    /\ mpc' = [mpc EXCEPT ![s] = "idle"]
    /\ last' = op[s]
    /\ op' = [op EXCEPT ![s] = NoOp]
    /\ ledger' = Apply(ledger, op[s])
    /\ UNCHANGED <<store, nops, boots>>

\* the process stops and starts again: every session's store is gone
Restart ==
    /\ \A s \in Sessions : mpc[s] # "dump"
    /\ UNCHANGED <<authVars, sreq, chatVars>>
    /\ \E s \in Sessions : mpc[s] = "idle"
    /\ boots < MaxRestarts
    /\ boots' = boots + 1
    /\ mpc' = [s \in Sessions |-> "none"]
    /\ store' = [s \in Sessions |-> NoStore]
    /\ UNCHANGED <<file, op, nops, last, ledger>>

\* MemoryStore.__init__ when json.load raises JSONDecodeError in _load: the
\* exception leaves __init__, and session s is left without a store
ConstructRaises(s, p) ==
    /\ mpc[s] = "none"
    /\ ~_load(file).ok
    /\ last' = [op |-> "load_error", sess |-> s, profile |-> p, key |-> "none",
                value |-> "none", boot |-> boots, before |-> EmptyDict,
                dataBefore |-> EmptyDict, fileBefore |-> file]
    /\ UNCHANGED <<file, store, mpc, op, nops, boots, ledger>>
    /\ UNCHANGED <<authVars, sreq, chatVars>>

\* json.dump or the close of the file raises OSError in save: the exception
\* leaves save and set or clear; nothing undoes lines 21-23 or line 31, and
\* the file stays as open(file_path, "w") left it
SaveRaises(s) ==
    /\ mpc[s] = "dump"
    /\ mpc' = [mpc EXCEPT ![s] = "idle"]
    /\ last' = [op[s] EXCEPT !.op = IF op[s].op = "set" THEN "set_failed"
                                    ELSE "clear_failed"]
    /\ op' = [op EXCEPT ![s] = NoOp]
    /\ UNCHANGED <<file, store, nops, boots, ledger>>
    /\ UNCHANGED <<authVars, sreq, chatVars>>

\* the process stops while a session is between open(file_path, "w") and the
\* close of the file, and starts again: the stores are gone, the file is as
\* the interrupted save left it
Crash ==
    /\ boots < MaxRestarts
    /\ \E s \in Sessions :
        /\ mpc[s] = "dump"
        /\ last' = [op[s] EXCEPT !.op = "crashed"]
    /\ boots' = boots + 1
    /\ mpc' = [s \in Sessions |-> "none"]
    /\ store' = [s \in Sessions |-> NoStore]
    /\ op' = [s \in Sessions |-> NoOp]
    /\ UNCHANGED <<file, nops, ledger>>
    /\ UNCHANGED <<authVars, sreq, chatVars>>

\* =================================================== main.py, database.py
\* ------------------------------------------------------- text as atoms
\* A string is a sequence of atoms.  An atom is a literal piece of text or a
\* JWT produced by jwt.encode; every atom has the same fields.
Lit(x) == [t |-> "lit", s |-> x, sub |-> 0, exp |-> 0, key |-> "-"]
JWT(sub, exp, key) == [t |-> "jwt", s |-> "-", sub |-> sub, exp |-> exp, key |-> key]

BearerLit == Lit("Bearer")
SpaceLit  == Lit(" ")
TabLit    == Lit("\t")
IsSpace(a) == a \in {SpaceLit, TabLit}

\* str.lower on an atom
Lower(a) == IF a = BearerLit THEN Lit("bearer") ELSE a

\* scheme.lower() == "bearer" for the string w
IsBearer(w) == Len(w) = 1 /\ Lower(w[1]) = Lit("bearer")

\* str.replace("Bearer ", "") : every occurrence is removed, left to right
RECURSIVE ReplaceBearer(_)
ReplaceBearer(w) ==
    IF Len(w) = 0 THEN << >>
    ELSE IF Len(w) >= 2 /\ w[1] = BearerLit /\ w[2] = SpaceLit
         THEN ReplaceBearer(SubSeq(w, 3, Len(w)))
         ELSE <<w[1]>> \o ReplaceBearer(Tail(w))

\* str.strip()
RECURSIVE LStrip(_)
LStrip(w) == IF Len(w) > 0 /\ IsSpace(w[1]) THEN LStrip(Tail(w)) ELSE w
RECURSIVE RStrip(_)
RStrip(w) ==
    IF Len(w) > 0 /\ IsSpace(w[Len(w)]) THEN RStrip(SubSeq(w, 1, Len(w) - 1)) ELSE w
Strip(w) == RStrip(LStrip(w))

\* str.split(): the words between runs of whitespace
RECURSIVE SplitFrom(_, _)
SplitFrom(w, cur) ==
    IF Len(w) = 0 THEN (IF cur = << >> THEN << >> ELSE <<cur>>)
    ELSE IF IsSpace(w[1])
         THEN (IF cur = << >> THEN SplitFrom(Tail(w), << >>)
               ELSE <<cur>> \o SplitFrom(Tail(w), << >>))
         ELSE SplitFrom(Tail(w), Append(cur, w[1]))
Split(w) == SplitFrom(w, << >>)

\* str.partition(" "): the text before the first space and the text after it
FirstSpace(w) ==
    IF \E i \in 1..Len(w) : w[i] = SpaceLit
    THEN CHOOSE i \in 1..Len(w) : w[i] = SpaceLit /\ \A j \in 1..(i - 1) : w[j] # SpaceLit
    ELSE 0
Partition(w) ==
    IF FirstSpace(w) = 0 THEN [scheme |-> w, param |-> << >>]
    ELSE [scheme |-> SubSeq(w, 1, FirstSpace(w) - 1),
          param  |-> SubSeq(w, FirstSpace(w) + 1, Len(w))]

\* an optional string: a request part that may be missing, or None
Absent  == [present |-> FALSE, val |-> << >>]
Some(w) == [present |-> TRUE, val |-> w]
\* "not x" on an optional string
Falsy(x) == ~x.present \/ x.val = << >>

\* ------------------------------------------------------------- tokens
SECRET_KEY == "SECRET_KEY"
ACCESS_TOKEN_EXPIRE_MINUTES == 30
DefaultExpireMinutes == 15

\* expires_delta: None, or timedelta(minutes=n)
NoDelta  == [given |-> FALSE, minutes |-> 0]
Delta(n) == [given |-> TRUE, minutes |-> n]

\* create_access_token(data={"sub": sub}, expires_delta) at time t (minutes)
create_access_token(sub, expires_delta, t) ==
    LET expire == IF expires_delta.given /\ expires_delta.minutes # 0
                  THEN t + expires_delta.minutes
                  ELSE t + DefaultExpireMinutes
    IN  JWT(sub, expire, SECRET_KEY)

\* jwt.decode(token, SECRET_KEY, algorithms=[ALGORITHM]) at time t
jwt_decode(token, t) ==
    IF Len(token) # 1 \/ token[1].t # "jwt" THEN [ok |-> FALSE, err |-> "JWTError", sub |-> 0]
    ELSE IF token[1].key # SECRET_KEY THEN [ok |-> FALSE, err |-> "JWTError", sub |-> 0]
    ELSE IF token[1].exp < t THEN [ok |-> FALSE, err |-> "ExpiredSignatureError", sub |-> 0]
    ELSE [ok |-> TRUE, err |-> "none", sub |-> token[1].sub]

\* ------------------------------------------------- token in the request
\* oauth2_scheme = OAuth2PasswordBearer(tokenUrl="token", auto_error=False):
\* the parameter of an Authorization header whose scheme is bearer, else None
oauth2_scheme(header) ==
    IF Falsy(header) \/ ~IsBearer(Partition(header.val).scheme) THEN Absent
    ELSE Some(Partition(header.val).param)

\* get_current_user, lines 85-99: the token to decode, or the response raised
Candidate(w) == [kind |-> "token", token |-> w, status |-> 0, detail |-> "-"]
Raised(st, d) == [kind |-> "raised", token |-> << >>, status |-> st, detail |-> d]
credentials_exception == Raised(401, "Not authenticated")

\* the search as it would be if a wrong scheme raised credentials_exception
find_token_one_error(cookie, header) ==
    LET token0 == oauth2_scheme(header)
        token1 == IF Falsy(token0) /\ ~Falsy(cookie)
                  THEN Some(ReplaceBearer(cookie.val)) ELSE token0
        parts  == Split(Strip(header.val))
    IN  IF Falsy(token1) /\ header.present
        THEN IF Len(parts) # 2 \/ ~IsBearer(parts[1]) \/ parts[2] = << >>
             THEN credentials_exception
             ELSE Candidate(parts[2])
        ELSE IF Falsy(token1) THEN credentials_exception
             ELSE Candidate(token1.val)

find_token(cookie, header) ==
    LET token0 == oauth2_scheme(header)
        token1 == IF Falsy(token0) /\ ~Falsy(cookie)
                  THEN Some(ReplaceBearer(cookie.val)) ELSE token0
        parts  == Split(Strip(header.val))
    IN  IF Falsy(token1) /\ header.present
        THEN IF Len(parts) # 2 THEN credentials_exception
             ELSE IF ~IsBearer(parts[1])
                  THEN Raised(400, "Invalid authentication scheme")
                  ELSE IF parts[2] = << >> THEN credentials_exception
                       ELSE Candidate(parts[2])
        ELSE IF Falsy(token1) THEN credentials_exception
             ELSE Candidate(token1.val)

\* ------------------------------------------------------ database.py
\* pwd_context.hash(password): a salted digest, never the password itself
Hash(pw, salt) == [alg |-> "bcrypt", salt |-> salt, digest |-> <<salt, pw>>]
\* verify as it would be if it only recognised the hash format
VerifyFormat(pw, hashed) == hashed.alg = "bcrypt"

\* pwd_context.verify(password, hashed)
Verify(pw, hashed) == hashed = Hash(pw, hashed.salt)

NoUser == [id |-> 0, email |-> 0, password |-> Hash(0, 0)]

\* users.find_one({"email": email})
find_one(coll, email) ==
    IF \E u \in coll : u.email = email
    THEN CHOOSE u \in coll : u.email = email
    ELSE NoUser

\* MongoDB.create_user: the id of the inserted document, or the error
\* returned for a DuplicateKeyError of the unique index on email
create_user(coll, email, pw, salt) ==
    IF find_one(coll, email) # NoUser
    THEN [ok |-> FALSE, id |-> 0, error |-> "Email already exists", coll |-> coll]
    ELSE [ok |-> TRUE, id |-> Cardinality(coll) + 1, error |-> "-",
          coll |-> coll \cup {[id |-> Cardinality(coll) + 1, email |-> email,
                               password |-> Hash(pw, salt)]}]

\* MongoDB.authenticate_user: the user document, or False
authenticate_user(coll, email, pw) ==
    LET user == find_one(coll, email)
    IN  IF user = NoUser THEN [ok |-> FALSE, user |-> NoUser]
        ELSE IF ~Verify(pw, user.password) THEN [ok |-> FALSE, user |-> NoUser]
        ELSE [ok |-> TRUE, user |-> user]

\* MongoDB.get_user_by_email
get_user_by_email(coll, email) == find_one(coll, email)

\* the names bound at the top level of database.py
DatabaseModuleNames ==
    {"MongoClient", "DuplicateKeyError", "CryptContext", "datetime", "timedelta",
     "os", "load_dotenv", "pwd_context", "MongoDB", "db"}

\* main.py line 14 binds db to the module database: db.name raises
\* AttributeError unless the module defines name
db_has(name) == name \in DatabaseModuleNames

\* ---------------------------------------------------------- main.py
NoSub == 0
Response(route, status, detail, user, cookie, logged) ==
    [route |-> route, status |-> status, detail |-> detail, user |-> user,
     set_access_token |-> cookie, logged |-> logged]
NoResponse == Response("none", 0, "-", NoSub, Absent, "-")

\* the handlers as they would be if they passed the cause on to the caller
on_exception_leaky(err) ==
    [ok |-> FALSE, user |-> NoSub, status |-> 401, detail |-> err, logged |-> err]

\* get_current_user, lines 115-120: what is raised for an exception caught
\* while decoding the token or looking up the user
on_exception(err) ==
    [ok |-> FALSE, user |-> NoSub, status |-> 401,
     detail |-> "Not authenticated", logged |-> err]

\* get_current_user: the user returned, or the HTTPException raised
get_current_user(cookie, header, coll, t) ==
    LET ft  == find_token(cookie, header)
        dec == jwt_decode(ft.token, t)
    IN  IF ft.kind = "raised"
        THEN [ok |-> FALSE, user |-> NoSub, status |-> ft.status,
              detail |-> ft.detail, logged |-> "-"]
        ELSE IF ~dec.ok THEN on_exception(dec.err)
        ELSE IF dec.sub = NoSub THEN on_exception("HTTPException")
        ELSE IF ~db_has("get_user_by_email") THEN on_exception("AttributeError")
        ELSE IF get_user_by_email(coll, dec.sub) = NoUser THEN on_exception("HTTPException")
        ELSE [ok |-> TRUE, user |-> dec.sub, status |-> 200,
              detail |-> "-", logged |-> "-"]

\* GET /api/user/me
read_users_me(cookie, header, coll, t) ==
    LET cu == get_current_user(cookie, header, coll, t)
    IN  IF cu.ok THEN Response("me", 200, "success", cu.user, Absent, cu.logged)
        ELSE Response("me", cu.status, cu.detail, NoSub, Absent, cu.logged)

\* the value of the access_token cookie set at signup and login
BearerCookie(token) == Some(<<BearerLit, SpaceLit, token>>)

\* POST /signup: the response and the collection afterwards
signup(coll, email, pw, salt, t) ==
    LET created == create_user(coll, email, pw, salt)
        access_token == create_access_token(email, Delta(ACCESS_TOKEN_EXPIRE_MINUTES), t)
    IN  IF ~db_has("users")
        THEN [resp |-> Response("signup", 500, "An error occurred during signup. Please try again.",
                                NoSub, Absent, "AttributeError"),
              coll |-> coll]
        ELSE IF find_one(coll, email) # NoUser
        THEN [resp |-> Response("signup", 400, "Email already registered", NoSub, Absent, "-"),
              coll |-> coll]
        ELSE IF ~db_has("create_user")
        THEN [resp |-> Response("signup", 500, "An error occurred during signup. Please try again.",
                                NoSub, Absent, "AttributeError"),
              coll |-> coll]
        ELSE IF ~created.ok
        THEN [resp |-> Response("signup", 400, created.error, NoSub, Absent, "-"),
              coll |-> coll]
        ELSE [resp |-> Response("signup", 303, "/dashboard", NoSub,
                                BearerCookie(access_token), "-"),
              coll |-> created.coll]

\* --------------------------------------------- requests and their actions
NoRequest == [route |-> "none", email |-> 0, pw |-> 0, fresh |-> FALSE, reason |-> "-"]
NoToken == [has |-> FALSE, token |-> JWT(0, 0, "-"), iat |-> 0, delta |-> NoDelta]
NoDbCall == [op |-> "none", email |-> 0, pw |-> 0, fresh |-> FALSE, ok |-> FALSE,
             id |-> 0, user |-> NoUser]

\* a direct call of MongoDB.create_user on the instance database.db
DbCreateUser(email, pw) ==
    \E salt \in Salts :
        LET r == create_user(users, email, pw, salt)
        IN  /\ users' = r.coll
            /\ dbres' = [op |-> "create", email |-> email, pw |-> pw,
                         fresh |-> (\A u \in users : u.email # email),
                         ok |-> r.ok, id |-> r.id, user |-> NoUser]
            /\ plain' = IF r.ok THEN plain \cup {<<email, pw>>} ELSE plain
            /\ UNCHANGED <<now, jar, is_authenticated, resp, found, tok, xreq, hreq, seen>>
            /\ UNCHANGED <<memVars, sreq, chatVars>>

\* a direct call of MongoDB.authenticate_user on the instance database.db
DbAuthenticate(email, pw) ==
    LET r == authenticate_user(users, email, pw)
    IN  /\ dbres' = [op |-> "auth", email |-> email, pw |-> pw, fresh |-> FALSE,
                     ok |-> r.ok, id |-> r.user.id, user |-> r.user]
        /\ UNCHANGED <<now, users, jar, is_authenticated, resp, found, tok, xreq, hreq, plain, seen>>
        /\ UNCHANGED <<memVars, sreq, chatVars>>

\* a call of create_access_token
Issue(sub, delta) ==
    /\ now <= MaxIssueTime
    /\ tok' = [has |-> TRUE, token |-> create_access_token(sub, delta, now),
               iat |-> now, delta |-> delta]
    /\ UNCHANGED <<now, users, jar, is_authenticated, resp, found, xreq, hreq, dbres, plain, seen>>
    /\ UNCHANGED <<memVars, sreq, chatVars>>

\* a minute passes
Tick ==
    /\ now < MaxTime
    /\ now' = now + 1
    /\ UNCHANGED <<users, jar, is_authenticated, resp, found, tok, xreq, hreq, dbres, plain, seen>>
    /\ UNCHANGED <<memVars, sreq, chatVars>>

\* why a request that carries at most one token is not authenticated
Forge(token) == [token EXCEPT !.key = "forged"]
Carried(cookie, header) ==
    IF header.present THEN header.val[Len(header.val)]
    ELSE IF cookie.present THEN cookie.val[Len(cookie.val)]
    ELSE JWT(0, 0, "-")
Reason(cookie, header, t) ==
    IF ~cookie.present /\ ~header.present THEN "no token"
    ELSE IF cookie.present /\ header.present THEN "two tokens"
    ELSE IF Carried(cookie, header).key # SECRET_KEY THEN "bad signature"
    ELSE IF Carried(cookie, header).exp < t THEN "expired"
    ELSE "well signed and current"

FailureReasons == {"no token", "bad signature", "expired"}

\* GET /api/user/me with the given cookie and Authorization header
CurrentUser(cookie, header) ==
    LET r == read_users_me(cookie, header, users, now)
    IN  /\ resp' = r
        /\ hreq' = [route |-> "me", email |-> Carried(cookie, header).sub, pw |-> 0,
                    fresh |-> FALSE, reason |-> Reason(cookie, header, now)]
        /\ seen' = IF Reason(cookie, header, now) \in FailureReasons
                   THEN seen \cup {[reason |-> Reason(cookie, header, now),
                                    status |-> r.status, detail |-> r.detail]}
                   ELSE seen
        /\ UNCHANGED <<now, users, jar, is_authenticated, found, tok, xreq, dbres, plain>>
        /\ UNCHANGED <<memVars, sreq, chatVars>>

\* the requests a client holding the latest token, or a copy of it signed
\* with another key, can send
TokensAtHand == IF tok.has THEN {tok.token, Forge(tok.token)} ELSE {}
CookiesAtHand == {Absent} \cup {BearerCookie(t) : t \in TokensAtHand}
HeadersAtHand == {Absent} \cup {Some(<<BearerLit, SpaceLit, t>>) : t \in TokensAtHand}

\* GET /api/user/me from a browser: the cookie is the one in the jar
CurrentUserFromJar == CurrentUser(jar, Absent)

\* POST /signup from a browser
Signup(email, pw) ==
    \E salt \in Salts :
        LET r == signup(users, email, pw, salt, now)
        IN  /\ users' = r.coll
            /\ resp' = r.resp
            /\ jar' = IF r.resp.set_access_token.present
                      THEN r.resp.set_access_token ELSE jar
            /\ hreq' = [route |-> "signup", email |-> email, pw |-> pw,
                        fresh |-> (\A u \in users : u.email # email), reason |-> "-"]
            /\ plain' = IF r.resp.status = 303 THEN plain \cup {<<email, pw>>} ELSE plain
            /\ UNCHANGED <<now, is_authenticated, found, tok, xreq, dbres, seen>>
            /\ UNCHANGED <<memVars, sreq, chatVars>>

\* POST /login from a browser: the first of the two handlers registered for
\* the route answers (login_for_access_token, lines 202-266)
Login(email, pw) ==
    LET auth == authenticate_user(users, email, pw)
        access_token == create_access_token(auth.user.email,
                                            Delta(ACCESS_TOKEN_EXPIRE_MINUTES), now)
        ok == db_has("authenticate_user") /\ auth.ok
    IN  /\ resp' = IF ~db_has("authenticate_user")
                   THEN Response("login", 500, "An error occurred during login",
                                 NoSub, Absent, "AttributeError")
                   ELSE IF ~auth.ok
                   THEN Response("login", 401, "Incorrect email or password",
                                 NoSub, Absent, "-")
                   ELSE Response("login", 200, "Login successful", auth.user.email,
                                 BearerCookie(access_token), "-")
        /\ jar' = IF ok THEN BearerCookie(access_token) ELSE jar
        /\ is_authenticated' = IF ok THEN Some(<<"true">>) ELSE is_authenticated
        /\ hreq' = [route |-> "login", email |-> email, pw |-> pw, fresh |-> FALSE,
                    reason |-> "-"]
        /\ UNCHANGED <<now, users, found, tok, xreq, dbres, plain, seen>>
        /\ UNCHANGED <<memVars, sreq, chatVars>>

\* GET /dashboard from a browser (lines 322-361): an HTTPException of the
\* dependency get_current_user is the answer before the handler runs; the
\* handler renders the page, or deletes both cookies when rendering raises
Dashboard ==
    LET cu == get_current_user(jar, Absent, users, now)
    IN  /\ \E rendered \in BOOLEAN :
              /\ resp' = IF ~cu.ok
                         THEN Response("dashboard", cu.status, cu.detail, NoSub, Absent,
                                       cu.logged)
                         ELSE IF rendered
                         THEN Response("dashboard", 200, "dashboard.html", cu.user,
                                       Absent, "-")
                         ELSE Response("dashboard", 307, "/login", NoSub, Absent,
                                       "Exception")
              /\ jar' = IF cu.ok /\ ~rendered THEN Absent ELSE jar
              /\ is_authenticated' = IF cu.ok /\ ~rendered THEN Absent
                                     ELSE is_authenticated
        /\ hreq' = [route |-> "dashboard", email |-> Carried(jar, Absent).sub, pw |-> 0,
                    fresh |-> FALSE, reason |-> Reason(jar, Absent, now)]
        /\ UNCHANGED <<now, users, found, tok, xreq, dbres, plain, seen>>
        /\ UNCHANGED <<memVars, sreq, chatVars>>

\* GET /logout from a browser (lines 389-393)
Logout ==
    /\ resp' = Response("logout", 307, "/login", NoSub, Absent, "-")
    /\ jar' = Absent
    /\ hreq' = [route |-> "logout", email |-> 0, pw |-> 0, fresh |-> FALSE,
                reason |-> "-"]
    /\ UNCHANGED <<now, users, is_authenticated, found, tok, xreq, dbres, plain, seen>>
    /\ UNCHANGED <<memVars, sreq, chatVars>>

\* the search for the token of a request (get_current_user up to line 99)
FindToken ==
    /\ found = Raised(0, "pending")
    /\ found' = find_token(xreq.cookie, xreq.header)
    /\ UNCHANGED <<now, users, jar, is_authenticated, resp, tok, xreq, hreq, dbres, plain, seen>>
    /\ UNCHANGED <<memVars, sreq, chatVars>>

\* ------------------------------- POST /signup, one statement at a time
\* signup, lines 147-158: the check for an existing user; an exception ends
\* in the response of the except branch (lines 195-200)
signup_check(coll, email) ==
    IF ~db_has("users")
    THEN [done |-> TRUE,
          resp |-> Response("signup", 500,
                            "An error occurred during signup. Please try again.",
                            NoSub, Absent, "AttributeError")]
    ELSE IF find_one(coll, email) # NoUser
    THEN [done |-> TRUE,
          resp |-> Response("signup", 400, "Email already registered", NoSub, Absent, "-")]
    ELSE [done |-> FALSE, resp |-> NoResponse]

\* signup, lines 160-193: the insert, the token and the redirect
signup_insert(coll, email, pw, salt, t) ==
    LET created == create_user(coll, email, pw, salt)
        access_token == create_access_token(email, Delta(ACCESS_TOKEN_EXPIRE_MINUTES), t)
    IN  IF ~db_has("create_user")
        THEN [resp |-> Response("signup", 500,
                                "An error occurred during signup. Please try again.",
                                NoSub, Absent, "AttributeError"),
              coll |-> coll]
        ELSE IF ~created.ok
        THEN [resp |-> Response("signup", 400, created.error, NoSub, Absent, "-"),
              coll |-> coll]
        ELSE [resp |-> Response("signup", 303, "/dashboard", NoSub,
                                BearerCookie(access_token), "-"),
              coll |-> created.coll]

\* a request slot: existed tells whether the email had an account when the
\* handler reached its answer, kept whether that account was left as it was
NoSignup == [pc |-> "none", email |-> 0, pw |-> 0, existed |-> FALSE,
             kept |-> TRUE, resp |-> NoResponse]

\* a POST /signup request arrives; its handler has not run a statement yet
SignupArrive(r, email, pw) ==
    /\ sreq[r].pc = "none"
    /\ sreq' = [sreq EXCEPT ![r] = [NoSignup EXCEPT !.pc = "check",
                                                     !.email = email, !.pw = pw]]
    /\ UNCHANGED <<memVars, authVars, chatVars>>

\* the handler of request r runs up to its next access to the database
SignupStep(r) ==
    /\ sreq[r].pc \in {"check", "insert"}
    /\ \E salt \in Salts :
        LET q   == sreq[r]
            had == find_one(users, q.email) # NoUser
            c   == signup_check(users, q.email)
            i   == signup_insert(users, q.email, q.pw, salt, now)
        IN  IF q.pc = "check"
            THEN /\ sreq' = [sreq EXCEPT ![r] =
                        IF c.done
                        THEN [q EXCEPT !.pc = "done", !.existed = had, !.resp = c.resp]
                        ELSE [q EXCEPT !.pc = "insert"]]
                 /\ UNCHANGED <<users, plain>>
            ELSE /\ users' = i.coll
                 /\ plain' = IF i.resp.status = 303
                             THEN plain \cup {<<q.email, q.pw>>} ELSE plain
                 /\ sreq' = [sreq EXCEPT ![r] =
                        [q EXCEPT !.pc = "done", !.existed = had,
                                  !.kept = (find_one(i.coll, q.email) = find_one(users, q.email)),
                                  !.resp = i.resp]]
    /\ UNCHANGED <<now, jar, is_authenticated, resp, found, tok, xreq, hreq, dbres, seen>>
    /\ UNCHANGED <<memVars, chatVars>>

\* ======================================== app.py, voice_commands.py
\* -------------------------------------------------- text as characters
\* A text is a sequence of symbols.  A symbol is one character, or a whole
\* fixed message of the user interface that no code looks into.
\* str.lower
RECURSIVE str_lower(_)
str_lower(text) ==
    LET upper == <<"A", "B", "C", "D", "E", "F", "G", "H", "I", "J", "K", "L", "M",
                   "N", "O", "P", "Q", "R", "S", "T", "U", "V", "W", "X", "Y", "Z">>
        lower == <<"a", "b", "c", "d", "e", "f", "g", "h", "i", "j", "k", "l", "m",
                   "n", "o", "p", "q", "r", "s", "t", "u", "v", "w", "x", "y", "z">>
        lower_char(c) == IF \E i \in 1..26 : upper[i] = c
                         THEN lower[CHOOSE i \in 1..26 : upper[i] = c]
                         ELSE c
    IN  IF text = << >> THEN << >>
        ELSE <<lower_char(Head(text))>> \o str_lower(Tail(text))

\* str.startswith
startswith(text, prefix) ==
    Len(text) >= Len(prefix) /\ SubSeq(text, 1, Len(prefix)) = prefix

\* sub in text
str_in(sub, text) ==
    \E i \in 0..Len(text) :
        i + Len(sub) <= Len(text) /\ SubSeq(text, i + 1, i + Len(sub)) = sub

\* str.replace(old, new): every occurrence, left to right, without overlap
RECURSIVE str_replace(_, _, _)
str_replace(text, old, new) ==
    IF text = << >> THEN << >>
    ELSE IF startswith(text, old)
    THEN new \o str_replace(SubSeq(text, Len(old) + 1, Len(text)), old, new)
    ELSE <<Head(text)>> \o str_replace(Tail(text), old, new)

\* str.split(sep): the pieces between the occurrences of sep, empty ones kept
RECURSIVE split_from(_, _, _)
split_from(text, sep, cur) ==
    IF text = << >> THEN <<cur>>
    ELSE IF startswith(text, sep)
    THEN <<cur>> \o split_from(SubSeq(text, Len(sep) + 1, Len(text)), sep, << >>)
    ELSE split_from(Tail(text), sep, Append(cur, Head(text)))

\* str.strip
RECURSIVE str_lstrip(_)
str_lstrip(text) ==
    IF text # << >> /\ ((Head(text)) \in {" ", "\t", "\n"}) THEN str_lstrip(Tail(text)) ELSE text
RECURSIVE str_rstrip(_)
str_rstrip(text) ==
    IF text # << >> /\ ((text[Len(text)]) \in {" ", "\t", "\n"})
    THEN str_rstrip(SubSeq(text, 1, Len(text) - 1)) ELSE text
str_strip(text) == str_rstrip(str_lstrip(text))

\* the concatenation of a sequence of texts
RECURSIVE Concat(_)
Concat(parts) == IF parts = << >> THEN << >> ELSE Head(parts) \o Concat(Tail(parts))

\* --------------------------------------------------------- app.py
\* the texts the chat handler compares its input with
REMEMBER_PREFIX == <<"/", "r", "e", "m", "e", "m", "b", "e", "r", " ">>
CLEAR_COMMAND == <<"/", "c", "l", "e", "a", "r">>
SHOW_COMMAND ==
    <<"w", "h", "a", "t", " ", "d", "o", " ", "y", "o", "u", " ", "r", "e",
      "m", "e", "m", "b", "e", "r", "?">>
FAILURE_KEYWORDS ==
    <<<<"e", "r", "r", "o", "r">>,
      <<"a", "p", "o", "l", "o", "g", "i", "z", "e">>,
      <<"s", "o", "r", "r", "y">>>>

\* an entry of st.session_state.messages, and an output of a Streamlit widget
Message(role, content) == [role |-> role, content |-> content]
Shown(widget, text) == [widget |-> widget, text |-> text, data |-> EmptyDict]

\* ------------------------------------------------ model_provider.py
\* GraniteHF.chat for what model.generate and tokenizer.decode do inside it
\* (they produce a text, or one of them raises an exception with a message):
\* the stripped text, or the apology built in its except branch; no
\* Exception leaves it
chat(outcome) ==
    LET head == <<"I", " ", "a", "p", "o", "l", "o", "g", "i", "z", "e", ",", " ",
                  "b", "u", "t", " ", "I", " ", "e", "n", "c", "o", "u", "n", "t",
                  "e", "r", "e", "d", " ", "a", "n", " ", "e", "r", "r", "o", "r",
                  ":", " ">>
        tail == <<".", " ", "P", "l", "e", "a", "s", "e", " ", "t", "r", "y", " ",
                  "a", "g", "a", "i", "n", " ", "l", "a", "t", "e", "r", ".">>
    IN  IF outcome.kind = "text"
        THEN [raised |-> FALSE, text |-> str_strip(outcome.text), err |-> << >>]
        ELSE [raised |-> FALSE, text |-> head \o outcome.text \o tail, err |-> << >>]

\* ------------------------------------------- app.py, the chat handler
\* the heuristic as it would be if it looked at the reply as written
is_failure_as_written(response) ==
    \E i \in 1..Len(FAILURE_KEYWORDS) : str_in(FAILURE_KEYWORDS[i], response)

\* line 185: any(keyword in response.lower() for keyword in [...])
is_failure(response) ==
    \E i \in 1..Len(FAILURE_KEYWORDS) : str_in(FAILURE_KEYWORDS[i], str_lower(response))

\* the chain as it would be if it compared the prompt as typed
classify_as_typed(prompt) ==
    IF startswith(prompt, REMEMBER_PREFIX) THEN "remember"
    ELSE IF prompt = CLEAR_COMMAND THEN "clear"
    ELSE IF prompt = SHOW_COMMAND THEN "show"
    ELSE "chat"

\* the if/elif chain of lines 140-157: the branch taken for a prompt
classify(prompt) ==
    IF startswith(prompt, REMEMBER_PREFIX) THEN "remember"
    ELSE IF str_lower(str_strip(prompt)) = CLEAR_COMMAND THEN "clear"
    ELSE IF str_lower(str_strip(prompt)) = SHOW_COMMAND THEN "show"
    ELSE "chat"

\* lines 140-156: what a command does to the store st and the file f, and
\* what it shows; the messages of the page are one symbol each
local_turn(st, f, prompt) ==
    LET \* line 141: prompt.replace("/remember ", "").split("=")
        kv   == split_from(str_replace(prompt, REMEMBER_PREFIX, << >>), <<"=">>, << >>)
        key  == str_strip(kv[1])
        val  == str_strip(kv[2])
        set  == set_data(st, key, val)
        kind == classify(prompt)
        same(shown) == [data |-> st.data, file |-> f, shown |-> shown]
    IN  IF kind = "remember" /\ Len(kv) = 2
        THEN [data |-> set, file |-> json_dump(set),
              shown |-> <<Shown("success",
                                <<"Remembered: ">> \o key \o <<" = ">> \o val)>>]
        ELSE IF kind = "remember"
        THEN same(<<Shown("error", <<"Use format: /remember key=value">>)>>)
        ELSE IF kind = "clear" /\ st.profile_id \in DOMAIN st.data
        THEN [data |-> clear_data(st), file |-> json_dump(clear_data(st)),
              shown |-> <<Shown("success", <<"Memory cleared!">>)>>]
        ELSE IF kind = "clear"
        THEN same(<<Shown("success", <<"Memory cleared!">>)>>)
        ELSE IF get_all(st) # EmptyDict
        THEN same(<<Shown("info", <<"Here's what I remember:">>),
                    [widget |-> "json", text |-> << >>, data |-> get_all(st)]>>)
        ELSE same(<<Shown("info", <<"I don't have any memories stored yet.">>)>>)

\* what is known of a turn: the prompt, the state it started from, the calls
\* of granite.chat, what the widgets showed; log lists the turns before it
NoTurn ==
    [n |-> 0, profile |-> <<"profile", 0>>, prompt |-> << >>, ready |-> FALSE,
     kind |-> "none", calls |-> 0,
     context |-> EmptyDict, outcome |-> "none", reply |-> << >>, shown |-> << >>,
     before |-> << >>, dataBefore |-> EmptyDict, fileBefore |-> AbsentFile,
     done |-> FALSE, log |-> << >>]

\* the user submits a prompt in st.chat_input
Submit(prompt) ==
    /\ cpc = "idle"
    /\ ~chat_input.present
    /\ turn.n < MaxTurns
    /\ chat_input' = Some(prompt)
    /\ UNCHANGED <<messages, model_ready, cpc, turn, current_page, voice, transcribed_text, profile_id>>
    /\ UNCHANGED <<memVars, authVars, sreq>>

\* the script runs with the prompt (lines 130-175): to the end of the turn,
\* or to the call of granite.chat
ChatInput ==
    /\ cpc = "idle"
    /\ chat_input.present
    /\ mpc[1] = "idle"
    /\ LET prompt == chat_input.val
           kind   == classify(prompt)
           loc    == local_turn(store[1], file, prompt)
           warn   == IF model_ready THEN << >>
                     ELSE <<Shown("warning",
                                  <<"Please load the model first using the sidebar button.">>)>>
           logged == [profile |-> turn.profile, prompt |-> turn.prompt,
                      kind |-> turn.kind, ready |-> turn.ready,
                      outcome |-> turn.outcome, reply |-> turn.reply,
                      shown |-> turn.shown]
           t0     == [NoTurn EXCEPT !.n = turn.n + 1, !.profile = profile_id,
                                    !.prompt = prompt,
                                    !.ready = model_ready, !.kind = kind,
                                    !.before = messages, !.dataBefore = store[1].data,
                                    !.fileBefore = file, !.shown = warn,
                                    !.log = IF turn.n = 0 THEN << >>
                                            ELSE Append(turn.log, logged)]
       IN  /\ chat_input' = Absent
           /\ messages' = IF model_ready
                          THEN Append(messages, Message("user", prompt)) ELSE messages
           /\ IF kind # "chat"
              THEN /\ store' = [store EXCEPT ![1].data = loc.data]
                   /\ file' = loc.file
                   /\ turn' = [t0 EXCEPT !.shown = @ \o loc.shown, !.done = TRUE]
                   /\ cpc' = "idle"
              ELSE IF ~model_ready
              THEN /\ turn' = [t0 EXCEPT
                                !.shown = @ \o <<Shown("error",
                                    <<"Model not ready. Please check your HuggingFace token.">>)>>,
                                         !.done = TRUE]
                   /\ cpc' = "idle"
                   /\ UNCHANGED <<store, file>>
              ELSE /\ turn' = [t0 EXCEPT !.calls = 1, !.context = get_all(store[1])]
                   /\ cpc' = "calling"
                   /\ UNCHANGED <<store, file>>
    /\ UNCHANGED <<model_ready, current_page, voice, transcribed_text, profile_id>>
    /\ UNCHANGED <<mpc, op, nops, boots, last, ledger>>
    /\ UNCHANGED <<authVars, sreq>>

\* granite.chat returns and the script runs to its end (lines 175-195)
ChatReturn(out) ==
    /\ cpc = "calling"
    /\ LET r == chat(out)
           error_msg == <<"An error occurred: ">> \o r.err
           retry == <<"I encountered an issue generating a response. Please try again or rephrase your question.">>
       IN  /\ messages' =
                 IF r.raised
                 THEN Append(messages, Message("assistant", error_msg))
                 ELSE IF is_failure(r.text) THEN messages
                 ELSE Append(messages, Message("assistant", r.text))
           /\ turn' = [turn EXCEPT
                 !.outcome = out.kind, !.reply = r.text, !.done = TRUE,
                 !.shown = @ \o <<IF r.raised THEN Shown("error", error_msg)
                                  ELSE IF is_failure(r.text) THEN Shown("error", retry)
                                  ELSE Shown("markdown", r.text)>>]
    /\ cpc' = "idle"
    /\ UNCHANGED <<chat_input, model_ready, current_page, voice, transcribed_text, profile_id>>
    /\ UNCHANGED <<memVars, authVars, sreq>>

\* the Load Model button (lines 85-105): GraniteHF(...) succeeds or raises
LoadModel ==
    /\ cpc = "idle"
    /\ ~model_ready
    /\ \E loaded \in BOOLEAN : model_ready' = loaded
    /\ UNCHANGED <<chat_input, messages, cpc, turn, current_page, voice, transcribed_text,
                   profile_id>>
    /\ UNCHANGED <<memVars, authVars, sreq>>

\* the Unload Model button (lines 110-115)
UnloadModel ==
    /\ cpc = "idle"
    /\ model_ready
    /\ model_ready' = FALSE
    /\ UNCHANGED <<chat_input, messages, cpc, turn, current_page, voice, transcribed_text,
                   profile_id>>
    /\ UNCHANGED <<memVars, authVars, sreq>>

\* the user types another Profile ID in the sidebar (line 28) and the script
\* runs again: "memory" is in st.session_state already, so lines 75-76 leave
\* the MemoryStore of the first run in place
ChangeProfile(p) ==
    /\ cpc = "idle"
    /\ ~chat_input.present
    /\ mpc[1] = "idle"
    /\ p # profile_id
    /\ profile_id' = p
    /\ UNCHANGED <<chat_input, messages, model_ready, cpc, turn, current_page, voice,
                   transcribed_text>>
    /\ UNCHANGED <<memVars, authVars, sreq>>

\* ------------------------------------------------ voice_commands.py
\* re.search of a pattern word1\s+word2\s+...(.+) in a text of one line.
\* match_here: the group when the pattern matches at the start of text
RECURSIVE match_here(_, _)
match_here(text, words) ==
    IF ~startswith(text, Head(words)) THEN [matched |-> FALSE, group |-> << >>]
    ELSE LET after == SubSeq(text, Len(Head(words)) + 1, Len(text))
             rest  == str_lstrip(after)
         IN  IF rest = after THEN [matched |-> FALSE, group |-> << >>]
             ELSE IF Len(words) > 1 THEN match_here(rest, Tail(words))
             ELSE IF rest # << >> THEN [matched |-> TRUE, group |-> rest]
             ELSE IF Len(after) >= 2
             THEN [matched |-> TRUE, group |-> <<after[Len(after)]>>]
             ELSE [matched |-> FALSE, group |-> << >>]
RECURSIVE re_search(_, _)
re_search(text, words) ==
    IF text = << >> THEN [matched |-> FALSE, group |-> << >>]
    ELSE IF match_here(text, words).matched THEN match_here(text, words)
    ELSE re_search(Tail(text), words)

\* the registry as it would be if it were kept sorted by keyword
commands_sorted ==
    <<[keyword |-> <<"a", "n", "a", "l", "y", "t", "i", "c", "s">>, handler |-> "go_to_analytics"],
      [keyword |-> <<"b", "u", "d", "g", "e", "t">>, handler |-> "budget_help"],
      [keyword |-> <<"c", "h", "a", "t">>, handler |-> "go_to_chat"],
      [keyword |-> <<"c", "l", "e", "a", "r">>, handler |-> "clear_chat"],
      [keyword |-> <<"d", "a", "s", "h", "b", "o", "a", "r", "d">>, handler |-> "go_to_dashboard"],
      [keyword |-> <<"e", "x", "p", "e", "n", "s", "e", "s">>, handler |-> "expenses_help"],
      [keyword |-> <<"e", "x", "p", "o", "r", "t">>, handler |-> "export_data"],
      [keyword |-> <<"h", "e", "l", "p">>, handler |-> "show_help"],
      [keyword |-> <<"i", "n", "v", "e", "s", "t">>, handler |-> "investment_help"],
      [keyword |-> <<"r", "e", "m", "e", "m", "b", "e", "r">>, handler |-> "remember_info"],
      [keyword |-> <<"s", "a", "v", "e">>, handler |-> "save_data"],
      [keyword |-> <<"s", "a", "v", "i", "n", "g", "s">>, handler |-> "savings_help"],
      [keyword |-> <<"s", "e", "t", "t", "i", "n", "g", "s">>, handler |-> "go_to_settings"],
      [keyword |-> <<"w", "h", "a", "t", " ", "d", "o", " ", "y", "o", "u", " ", "r", "e", "m", "e", "m", "b", "e", "r">>,
       handler |-> "show_memory"]>>

\* VoiceCommands.commands (lines 8-23), in the insertion order of the dict
commands ==
    <<[keyword |-> <<"h", "e", "l", "p">>, handler |-> "show_help"],
      [keyword |-> <<"c", "l", "e", "a", "r">>, handler |-> "clear_chat"],
      [keyword |-> <<"r", "e", "m", "e", "m", "b", "e", "r">>, handler |-> "remember_info"],
      [keyword |-> <<"w", "h", "a", "t", " ", "d", "o", " ", "y", "o", "u", " ", "r", "e", "m", "e", "m", "b", "e", "r">>,
       handler |-> "show_memory"],
      [keyword |-> <<"d", "a", "s", "h", "b", "o", "a", "r", "d">>, handler |-> "go_to_dashboard"],
      [keyword |-> <<"s", "e", "t", "t", "i", "n", "g", "s">>, handler |-> "go_to_settings"],
      [keyword |-> <<"a", "n", "a", "l", "y", "t", "i", "c", "s">>, handler |-> "go_to_analytics"],
      [keyword |-> <<"c", "h", "a", "t">>, handler |-> "go_to_chat"],
      [keyword |-> <<"s", "a", "v", "e">>, handler |-> "save_data"],
      [keyword |-> <<"e", "x", "p", "o", "r", "t">>, handler |-> "export_data"],
      [keyword |-> <<"b", "u", "d", "g", "e", "t">>, handler |-> "budget_help"],
      [keyword |-> <<"i", "n", "v", "e", "s", "t">>, handler |-> "investment_help"],
      [keyword |-> <<"s", "a", "v", "i", "n", "g", "s">>, handler |-> "savings_help"],
      [keyword |-> <<"e", "x", "p", "e", "n", "s", "e", "s">>, handler |-> "expenses_help"]>>

\* a dispatch that finds no keyword and no pattern in any text
dispatch_nothing(text) == "none"

\* process_voice_command, lines 35-53: the handler that answers the text: the
\* first entry of the registry whose keyword is in text, or else the first
\* pattern found in it; navigate_to and show_info pass the text on
dispatch(text) ==
    LET matching == {i \in 1..Len(commands) : str_in(commands[i].keyword, text)}
        first == CHOOSE i \in matching : \A j \in matching : i <= j
        navigate_to ==
            IF str_in(<<"d", "a", "s", "h", "b", "o", "a", "r", "d">>, text) THEN "go_to_dashboard"
            ELSE IF str_in(<<"s", "e", "t", "t", "i", "n", "g", "s">>, text) THEN "go_to_settings"
            ELSE IF str_in(<<"a", "n", "a", "l", "y", "t", "i", "c", "s">>, text) THEN "go_to_analytics"
            ELSE IF str_in(<<"c", "h", "a", "t">>, text) THEN "go_to_chat"
            ELSE "unknown_destination"
        show_info ==
            IF str_in(<<"h", "e", "l", "p">>, text) THEN "show_help"
            ELSE IF str_in(<<"m", "e", "m", "o", "r", "y">>, text)
                    \/ str_in(<<"r", "e", "m", "e", "m", "b", "e", "r">>, text)
            THEN "show_memory"
            ELSE "unknown_request"
    IN  IF matching # {} THEN commands[first].handler
        ELSE IF re_search(text, <<<<"r", "e", "m", "e", "m", "b", "e", "r">>>>).matched
        THEN "remember_info"
        ELSE IF re_search(text, <<<<"g", "o">>, <<"t", "o">>>>).matched THEN navigate_to
        ELSE IF re_search(text, <<<<"s", "h", "o", "w">>>>).matched THEN show_info
        ELSE "none"

\* the handlers of lines 55-216: what handler h returns for text and what
\* it leaves in the session state; has tells whether "memory" is in
\* st.session_state; the texts returned are one symbol each
handle(h, text, st, has, page, msgs) ==
    LET says(t) == [present |-> TRUE, text |-> t, data |-> EmptyDict]
        says_data(t, d) == [present |-> TRUE, text |-> t, data |-> d]
        says_nothing == [present |-> FALSE, text |-> << >>, data |-> EmptyDict]
        result(response, s, p, ms, wrote) ==
            [response |-> response, data |-> s.data, page |-> p, messages |-> ms,
             wrote |-> wrote]
        m    == re_search(text, <<<<"r", "e", "m", "e", "m", "b", "e", "r">>>>)
        info == str_strip(m.group)
        go(p) == result(says(<<"Navigated to ", p>>), st, p, msgs, FALSE)
    IN  IF h = "show_help" THEN result(says(<<"Available Voice Commands">>), st, page, msgs, FALSE)
        ELSE IF h = "clear_chat" THEN result(says(<<"Chat history cleared!">>), st, page, << >>, FALSE)
        ELSE IF h = "remember_info"
        THEN IF ~m.matched THEN result(says(<<"Please specify what to remember">>), st, page, msgs, FALSE)
             ELSE IF ~has THEN result(says(<<"Remembered: ">> \o info), st, page, msgs, FALSE)
             ELSE result(says(<<"Remembered: ">> \o info),
                          [st EXCEPT !.data = set_data(st, <<"voice_note">>, info)],
                          page, msgs, TRUE)
        ELSE IF h = "show_memory"
        THEN IF ~has THEN result(says(<<"Memory system not available">>), st, page, msgs, FALSE)
             ELSE IF get_all(st) # EmptyDict
             THEN result(says_data(<<"Stored memories: ">>, get_all(st)), st, page, msgs, FALSE)
             ELSE result(says(<<"No memories stored yet">>), st, page, msgs, FALSE)
        ELSE IF h = "go_to_dashboard" THEN go("dashboard")
        ELSE IF h = "go_to_settings" THEN go("settings")
        ELSE IF h = "go_to_analytics" THEN go("analytics")
        ELSE IF h = "go_to_chat" THEN go("chat")
        ELSE IF h = "unknown_destination"
        THEN result(says(<<"Unknown navigation destination">>), st, page, msgs, FALSE)
        ELSE IF h = "unknown_request"
        THEN result(says(<<"Unknown information request">>), st, page, msgs, FALSE)
        ELSE IF h = "save_data" THEN result(says(<<"Data saved successfully!">>), st, page, msgs, FALSE)
        ELSE IF h = "export_data" THEN result(says(<<"Data exported successfully!">>), st, page, msgs, FALSE)
        ELSE IF h = "budget_help" THEN result(says(<<"Budgeting Tips">>), st, page, msgs, FALSE)
        ELSE IF h = "investment_help"
        THEN result(says(<<"Investment Basics">>), st, page, msgs, FALSE)
        ELSE IF h = "savings_help"
        THEN result(says(<<"Savings Strategies">>), st, page, msgs, FALSE)
        ELSE IF h = "expenses_help"
        THEN result(says(<<"Expense Management">>), st, page, msgs, FALSE)
        ELSE result(says_nothing, st, page, msgs, FALSE)

\* what is known of a call of process_voice_command
NoVoice ==
    [n |-> 0, raw |-> << >>, text |-> << >>, handler |-> "none",
     response |-> [present |-> FALSE, text |-> << >>, data |-> EmptyDict],
     had_memory |-> FALSE, before |-> EmptyDict,
     dataBefore |-> EmptyDict, fileBefore |-> AbsentFile]

\* voice_assistant.py lines 29-46: the transcribed text, if there is any,
\* goes through process_voice_command (lower-cased and stripped, line 35)
ProcessVoice ==
    /\ cpc = "idle"
    /\ transcribed_text.present
    /\ mpc[1] \in {"none", "idle"}
    /\ LET raw  == transcribed_text.val
           text == str_strip(str_lower(raw))
           h    == IF raw = << >> THEN "none" ELSE dispatch(text)
           r    == handle(h, text, store[1], mpc[1] = "idle", current_page, messages)
       IN  /\ transcribed_text' = Absent
           /\ store' = [store EXCEPT ![1].data = r.data]
           /\ file' = IF r.wrote THEN json_dump(r.data) ELSE file
           /\ current_page' = r.page
           /\ messages' = r.messages
           /\ voice' = [n |-> voice.n + 1, raw |-> raw, text |-> text, handler |-> h,
                        response |-> r.response, had_memory |-> (mpc[1] = "idle"),
                        before |-> get_all(store[1]), dataBefore |-> store[1].data,
                        fileBefore |-> file]
    /\ UNCHANGED <<chat_input, model_ready, cpc, turn, profile_id>>
    /\ UNCHANGED <<mpc, op, nops, boots, last, ledger>>
    /\ UNCHANGED <<authVars, sreq>>

\* ------------------------------------------------------ specifications
InitFiles ==
    {AbsentFile, json_dump(EmptyDict)} \cup
    {json_dump(Put(EmptyDict, p, Put(EmptyDict, <<"key", 1>>, <<"value", 1>>))) :
        p \in Profiles}

MemInit ==
    /\ store = [s \in Sessions |-> NoStore]
    /\ mpc = [s \in Sessions |-> "none"]
    /\ op = [s \in Sessions |-> NoOp]
    /\ nops = 0
    /\ boots = 0
    /\ last = NoOp
    /\ ledger = EmptyDict

AuthInit ==
    /\ now = 0
    /\ users = {}
    /\ jar = Absent /\ is_authenticated = Absent
    /\ resp = NoResponse
    /\ found = Raised(0, "pending")
    /\ tok = NoToken
    /\ xreq = [cookie |-> Absent, header |-> Absent]
    /\ hreq = NoRequest
    /\ dbres = NoDbCall
    /\ plain = {}
    /\ seen = {}
    /\ sreq = [r \in 1..NumRequests |-> NoSignup]

SessionInit ==
    /\ chat_input = Absent
    /\ messages = << >>
    /\ model_ready = FALSE
    /\ cpc = "idle"
    /\ turn = NoTurn
    /\ current_page = "none"
    /\ voice = NoVoice /\ transcribed_text = Absent
    /\ profile_id = store[1].profile_id

Init == file \in InitFiles /\ MemInit /\ AuthInit /\ SessionInit

\* one process, one session at a time, restarts between calls
StoreNext ==
    \/ \E p \in Profiles : Construct(1, p)
    \/ \E k \in Keys, v \in Values : SetCall(1, k, v)
    \/ Clear(1)
    \/ SaveDump(1)
    \/ Restart

SpecStore == Init /\ [][StoreNext]_vars

\* one session whose writes can fail and whose process can stop at any step
FaultNext ==
    \/ \E p \in Profiles : Construct(1, p)
    \/ \E p \in Profiles : ConstructRaises(1, p)
    \/ \E k \in Keys, v \in Values : SetCall(1, k, v)
    \/ Clear(1)
    \/ SaveDump(1)
    \/ SaveRaises(1)
    \/ Crash
    \/ Restart

SpecFault == Init /\ [][FaultNext]_vars

\* several sessions of one process, each with its own store
RaceSet(s, k, v) == nops < MaxRaceOps /\ SetCall(s, k, v)
RaceClear(s) == nops < MaxRaceOps /\ Clear(s)

RaceNext ==
    \/ \E s \in Sessions, p \in Profiles : Construct(s, p)
    \/ \E s \in Sessions, k \in Keys, v \in Values : RaceSet(s, k, v)
    \/ \E s \in Sessions : RaceClear(s)
    \/ \E s \in Sessions : SaveDump(s)

SpecRace == Init /\ [][RaceNext]_vars

\* the persistence layer used on its own
DbInit == file = AbsentFile /\ MemInit /\ AuthInit /\ SessionInit
DbNext ==
    \/ \E e \in Emails, pw \in Passwords : DbCreateUser(e, pw)
    \/ \E e \in Emails, pw \in Passwords : DbAuthenticate(e, pw)

SpecDb == DbInit /\ [][DbNext]_vars

\* the collection once every email has an account
RECURSIVE Registered(_)
Registered(n) ==
    IF n = 0 THEN {} ELSE create_user(Registered(n - 1), n, 1, 1).coll

\* tokens over time: issue, let time pass, ask for the current user
TokenInit ==
    /\ file = AbsentFile /\ MemInit
    /\ now = 0 /\ users \in {{}, Registered(NumEmails)}
    /\ jar = Absent /\ is_authenticated = Absent /\ resp = NoResponse /\ found = Raised(0, "pending")
    /\ tok = NoToken /\ hreq = NoRequest /\ dbres = NoDbCall
    /\ xreq = [cookie |-> Absent, header |-> Absent]
    /\ plain = {} /\ seen = {}
    /\ sreq = [r \in 1..NumRequests |-> NoSignup] /\ SessionInit
Deltas == {NoDelta, Delta(0), Delta(1), Delta(ACCESS_TOKEN_EXPIRE_MINUTES)}
TokenNext ==
    \/ \E e \in Emails, d \in Deltas : Issue(e, d)
    \/ Tick
    \/ \E c \in CookiesAtHand, h \in HeadersAtHand : CurrentUser(c, h)

SpecToken == TokenInit /\ [][TokenNext]_vars

\* the HTTP routes as a browser uses them, beside the persistence layer
HttpNext ==
    \/ \E e \in Emails, pw \in Passwords : Signup(e, pw)
    \/ CurrentUserFromJar
    \/ \E e \in Emails, pw \in Passwords : DbCreateUser(e, pw)
    \/ \E e \in Emails, pw \in Passwords : DbAuthenticate(e, pw)

SpecHttp == DbInit /\ [][HttpNext]_vars

\* one browser and its two cookies: the jar is empty, or holds the pair of
\* cookies of a login at time 0 that has not expired in the browser
CookieInit ==
    /\ file = AbsentFile /\ MemInit
    /\ now = 0 /\ users \in {{}, Registered(NumEmails)}
    /\ \E held \in BOOLEAN, e \in Emails :
          /\ jar = IF held
                   THEN BearerCookie(create_access_token(
                            e, Delta(ACCESS_TOKEN_EXPIRE_MINUTES), 0))
                   ELSE Absent
          /\ is_authenticated = IF held THEN Some(<<"true">>) ELSE Absent
    /\ resp = NoResponse /\ found = Raised(0, "pending")
    /\ tok = NoToken /\ hreq = NoRequest /\ dbres = NoDbCall
    /\ xreq = [cookie |-> Absent, header |-> Absent]
    /\ plain = {} /\ seen = {}
    /\ sreq = [r \in 1..NumRequests |-> NoSignup] /\ SessionInit
CookieNext ==
    \/ \E e \in Emails, pw \in Passwords : Signup(e, pw)
    \/ \E e \in Emails, pw \in Passwords : Login(e, pw)
    \/ Dashboard
    \/ Logout
    \/ Tick

SpecCookie == CookieInit /\ [][CookieNext]_vars

\* concurrent POST /signup requests beside direct inserts
SignupRaceNext ==
    \/ \E r \in 1..NumRequests, e \in Emails, pw \in Passwords : SignupArrive(r, e, pw)
    \/ \E r \in 1..NumRequests : SignupStep(r)
    \/ \E e \in Emails, pw \in Passwords : DbCreateUser(e, pw)

SpecSignupRace == DbInit /\ [][SignupRaceNext]_vars

\* the token search over all short cookies and Authorization headers
RECURSIVE Strings(_, _)
Strings(alphabet, n) ==
    IF n = 0 THEN {<< >>}
    ELSE LET shorter == Strings(alphabet, n - 1)
         IN  shorter \cup {Append(w, a) : w \in shorter, a \in alphabet}

T1 == JWT(1, 0, "t1")
T2 == JWT(2, 0, "t2")
CookieAlphabet == {BearerLit, SpaceLit, T1}
HeaderAlphabet == {BearerLit, Lit("bearer"), SpaceLit, TabLit, T1, T2}
\* a server passes on header values without surrounding whitespace
Trimmed(w) == Strip(w) = w
Cookies == {Absent} \cup {Some(w) : w \in Strings(CookieAlphabet, MaxCookieLen)}
Headers == {Absent} \cup
           {Some(w) : w \in {x \in Strings(HeaderAlphabet, MaxHeaderLen) : Trimmed(x)}}

ExtractInit ==
    /\ file = AbsentFile /\ MemInit
    /\ now = 0 /\ users = {} /\ jar = Absent /\ is_authenticated = Absent /\ resp = NoResponse
    /\ found = Raised(0, "pending") /\ tok = NoToken
    /\ hreq = NoRequest
    /\ xreq \in {[cookie |-> c, header |-> h] : c \in Cookies, h \in Headers}
    /\ dbres = NoDbCall /\ plain = {} /\ seen = {}
    /\ sreq = [r \in 1..NumRequests |-> NoSignup] /\ SessionInit
ExtractNext == FindToken

SpecExtract == ExtractInit /\ [][ExtractNext]_vars

\* the chat page: the prompts typed, every /remember prompt of a few parts
\* and the other kinds of prompt
Prompts ==
    LET parts == {REMEMBER_PREFIX, <<"k", " ">>, <<"=">>, <<" ", "v">>}
    IN  {REMEMBER_PREFIX \o Concat(w) : w \in Strings(parts, MaxPromptParts)} \cup
        {CLEAR_COMMAND, <<" ", "/", "C", "L", "E", "A", "R", " ">>,
         SHOW_COMMAND,
         <<" ", "W", "h", "a", "t", " ", "d", "o", " ", "y", "o", "u", " ",
           "r", "e", "m", "e", "m", "b", "e", "r", "?", " ">>,
         <<"h", "i">>, <<"/", "c", "l", "e", "a", "r", " ", "a", "l", "l">>}

\* what model.generate and tokenizer.decode do inside GraniteHF.chat: they
\* produce a text of a few parts, or one of them raises an exception
Outcomes ==
    LET parts == {<<"S", "o", "r", "r", "y">>, <<"E", "R", "R", "O", "R">>,
                  <<"a", "p", "o", "l", "o", "g", "i", "z", "e">>, <<"o", "k">>, <<" ">>}
    IN  {[kind |-> "text", text |-> Concat(w)] : w \in Strings(parts, MaxReplyParts)} \cup
        {[kind |-> "raise", text |-> <<"o", "o", "m">>]}

\* the memory left by lines 72-82 for the profile in the sidebar: the store
\* of the session, loaded from a file that is absent or holds one entry
SessionStarted(p) ==
    /\ file \in {AbsentFile,
                 json_dump(Put(EmptyDict, <<"profile", 1>>,
                               Put(EmptyDict, <<"k">>, <<"v">>)))}
    /\ store = [s \in Sessions |-> IF s = 1
                                   THEN [profile_id |-> p, data |-> _load(file).data]
                                   ELSE NoStore]
    /\ mpc = [s \in Sessions |-> IF s = 1 THEN "idle" ELSE "none"]
    /\ op = [s \in Sessions |-> NoOp]
    /\ nops = 0 /\ boots = 0 /\ last = NoOp /\ ledger = EmptyDict

\* a session of several turns
ChatInit ==
    /\ \E p \in Profiles : SessionStarted(p)
    /\ SessionInit
    /\ AuthInit
ChatNext ==
    \/ \E p \in {REMEMBER_PREFIX \o <<"k", "=", "v">>, REMEMBER_PREFIX \o <<"k">>,
                 CLEAR_COMMAND, SHOW_COMMAND, <<"h", "i">>} : Submit(p)
    \/ ChatInput
    \/ \E out \in {[kind |-> "text", text |-> <<"s", "a", "v", "e", " ", "m", "o", "r", "e", " ">>],
                   [kind |-> "text", text |-> <<"S", "o", "r", "r", "y", ",", " ", "n", "o">>],
                   [kind |-> "raise", text |-> <<"o", "o", "m">>]} : ChatReturn(out)
    \/ LoadModel
    \/ UnloadModel

SpecChat == ChatInit /\ [][ChatNext]_vars

\* the first turn of a session, over the prompts and the outcomes
TurnInit ==
    /\ SessionStarted(<<"profile", 1>>)
    /\ chat_input \in {Some(p) : p \in Prompts}
    /\ messages = << >> /\ model_ready = FALSE /\ cpc = "idle"
    /\ turn = NoTurn /\ current_page = "none"
    /\ voice = NoVoice /\ transcribed_text = Absent
    /\ profile_id = store[1].profile_id
    /\ AuthInit
TurnNext ==
    \/ LoadModel
    \/ ChatInput
    \/ \E out \in Outcomes : ChatReturn(out)

SpecTurn == TurnInit /\ [][TurnNext]_vars

\* a session of pass-through turns in which the script is run whenever a
\* prompt waits; nothing makes granite.chat return
LiveNext ==
    \/ Submit(<<"h", "i">>)
    \/ ChatInput
    \/ \E text \in {<<"o", "k">>, <<"S", "o", "r", "r", "y">>} :
           ChatReturn([kind |-> "text", text |-> text])
    \/ LoadModel
    \/ UnloadModel

SpecChatLive == ChatInit /\ [][LiveNext]_vars /\ WF_vars(ChatInput)

\* a session with or without a transcript of earlier turns and with or without
\* a recording that has just been transcribed, in which the Profile ID is
\* edited and the voice page is used next to the chat page
PagesInit ==
    /\ \E p \in Profiles : SessionStarted(p)
    /\ messages \in {<< >>, <<Message("user", <<"h", "i">>),
                              Message("assistant", <<"o", "k">>)>>}
    /\ transcribed_text \in {Absent, Some(<<"C", "l", "e", "a", "r", " ">>)}
    /\ chat_input = Absent /\ model_ready = FALSE /\ cpc = "idle"
    /\ turn = NoTurn /\ current_page = "none" /\ voice = NoVoice
    /\ profile_id = store[1].profile_id
    /\ AuthInit
SessionNext ==
    \/ \E p \in {REMEMBER_PREFIX \o <<"j", "=", "w">>, CLEAR_COMMAND, SHOW_COMMAND,
                 <<"h", "i">>} : turn.n < MaxSessionSteps /\ Submit(p)
    \/ ChatInput
    \/ ChatReturn([kind |-> "text", text |-> <<"o", "k">>])
    \/ LoadModel
    \/ \E p \in Profiles : ChangeProfile(p)
    \/ ProcessVoice

SpecSession == PagesInit /\ [][SessionNext]_vars

\* the voice page: what the recording is transcribed to, a few phrases
Utterances ==
    LET phrases ==
            {<<"h", "e", "l", "p", " ">>, <<"c", "l", "e", "a", "r", " ">>,
             <<"r", "e", "m", "e", "m", "b", "e", "r", " ">>,
             <<"B", "u", "d", "g", "e", "t", " ">>,
             <<"i", "n", "v", "e", "s", "t", "m", "e", "n", "t", " ">>,
             <<"s", "a", "v", "i", "n", "g", "s", " ">>,
             <<"e", "x", "p", "e", "n", "s", "e", "s", " ">>,
             <<"w", "h", "a", "t", " ", "d", "o", " ", "y", "o", "u", " ">>,
             <<"h", "e", "l", "p", " ", "m", "e", " ", "b", "u", "d", "g", "e", "t", " ">>,
             <<"g", "o", " ", "t", "o", " ">>, <<"s", "h", "o", "w", " ">>,
             <<"m", "y", " ", "r", "e", "n", "t", " ">>}
    IN  {Concat(w) : w \in Strings(phrases, MaxPhrases)}

\* a session in which the chat page has run (memory and a transcript are set)
\* or has not, and a recording that has just been transcribed
VoiceInit ==
    /\ \/ /\ SessionStarted(<<"profile", 1>>)
          /\ messages = <<Message("user", <<"h", "i">>), Message("assistant", <<"o", "k">>)>>
       \/ file = AbsentFile /\ MemInit /\ messages = << >>
    /\ model_ready = FALSE /\ cpc = "idle" /\ turn = NoTurn
    /\ current_page = "none" /\ voice = NoVoice
    /\ transcribed_text \in {Some(u) : u \in Utterances}
    /\ chat_input = Absent
    /\ profile_id = store[1].profile_id
    /\ AuthInit

SpecVoice == VoiceInit /\ [][ProcessVoice]_vars

\* ------------------------------------------------------------- claims
\* no session is between open(file_path, "w") and the close of the file
Quiet == \A s \in Sessions : mpc[s] # "dump"

\* a store built from the backing file now, as after a restart
Reloaded(p) == GetOr(_load(file).data, p)

\* C1: once all mutations have returned, the backing file holds every
\* key/value written by a returned set that no later set of the same key and
\* no later clear of the same profile replaced, whichever session wrote it.
C1_NoLostUpdates ==
    Quiet =>
        \A p \in DOMAIN ledger : \A k \in DOMAIN ledger[p] :
            /\ file.kind = "json"
            /\ p \in DOMAIN file.doc
            /\ k \in DOMAIN file.doc[p]
            /\ file.doc[p][k] = ledger[p][k]

\* C2: after set(p,k,v) has returned, get_all of a store of profile p is the
\* mapping from before the call with k mapped to v, and so is the mapping a
\* store built from the backing file holds for p, also after a restart.
C2_SetRoundTrip ==
    last.op = "set" =>
        /\ \A s \in Sessions :
              mpc[s] = "idle" /\ store[s].profile_id = last.profile
              => get_all(store[s]) = Put(last.before, last.key, last.value)
        /\ Quiet => /\ _load(file).ok
                    /\ Reloaded(last.profile) = Put(last.before, last.key, last.value)

\* C2 witness: a set that overwrote a key and kept another one has returned,
\* the process has restarted, and the new store of that profile is loaded.
C2_Witness ==
    /\ last.op = "set"
    /\ last.key \in DOMAIN last.before
    /\ last.before[last.key] # last.value
    /\ Cardinality(DOMAIN last.before) > 1
    /\ boots > last.boot
    /\ mpc[1] = "idle"
    /\ store[1].profile_id = last.profile
    /\ get_all(store[1])[last.key] = last.value

\* C3: after clear(p) has returned, get_all(p) is empty in the running store
\* and in a store rebuilt from the backing file; a clear of a profile without
\* an entry returns without changing the store's mapping or the file.
C3_Clear ==
    /\ last.op = "clear" =>
          /\ \A s \in Sessions :
                mpc[s] = "idle" /\ store[s].profile_id = last.profile
                => get_all(store[s]) = EmptyDict
          /\ Quiet => /\ _load(file).ok
                      /\ Reloaded(last.profile) = EmptyDict
    /\ last.op = "clear_absent" /\ Quiet =>
          /\ file = last.fileBefore
          /\ \A s \in Sessions :
                mpc[s] = "idle" /\ store[s].profile_id = last.profile
                => /\ store[s].data = last.dataBefore
                   /\ get_all(store[s]) = EmptyDict

\* C3 witness: a clear of a non-empty mapping has returned, the process has
\* restarted and the new store of that profile shows the empty mapping.
C3_Witness ==
    /\ last.op = "clear"
    /\ last.before # EmptyDict
    /\ boots > last.boot
    /\ mpc[1] = "idle"
    /\ store[1].profile_id = last.profile
    /\ get_all(store[1]) = EmptyDict
    /\ file.kind = "json"
    /\ Cardinality(DOMAIN file.doc) > 1

\* C4: a request for the current user that carries a token issued for a
\* subject with an account is answered with that subject while the token has
\* not expired, and is refused for an expired signature once it has.
C4_IssueValidate ==
    /\ hreq.route = "me" /\ hreq.reason = "well signed and current"
       /\ (\E u \in users : u.email = hreq.email)
       => resp.status = 200 /\ resp.user = hreq.email
    /\ hreq.route = "me" /\ hreq.reason = "expired"
       => resp.status = 401 /\ resp.logged = "ExpiredSignatureError"

\* the parts of an Authorization header, and whether they are "bearer <token>"
Parts(header) == Split(Strip(header.val))
WellFormed(header) == Len(Parts(header)) = 2 /\ IsBearer(Parts(header)[1])

\* a cookie value with its "Bearer " prefix removed
WithoutPrefix(w) ==
    IF Len(w) >= 2 /\ w[1] = BearerLit /\ w[2] = SpaceLit THEN SubSeq(w, 3, Len(w)) ELSE w

\* C5: the token searched out of a request is the transport-level credential
\* if it is non-empty, else the cookie value without its "Bearer " prefix if
\* that is non-empty, else the token part of a well-formed Authorization
\* header; with none of the three the search ends as 'no token found'.
C5_Precedence ==
    found # Raised(0, "pending") =>
        LET transport == oauth2_scheme(xreq.header)
            cookie == WithoutPrefix(xreq.cookie.val)
        IN  IF ~Falsy(transport) THEN found = Candidate(transport.val)
            ELSE IF xreq.cookie.present /\ cookie # << >> THEN found = Candidate(cookie)
            ELSE IF xreq.header.present /\ WellFormed(xreq.header)
                 THEN found = Candidate(Parts(xreq.header)[2])
            ELSE IF ~xreq.header.present THEN found = credentials_exception
            ELSE TRUE

\* C6: all requests refused for a missing token, a badly signed token or an
\* expired token got one and the same answer, 401 'Not authenticated'.
C6_UniformRejection ==
    \A x \in seen : \A y \in seen :
        /\ x.status = y.status /\ x.detail = y.detail
        /\ x.status = 401 /\ x.detail = "Not authenticated"

\* C6 witness: a request of each of the three kinds has been refused.
C6_Witness == {x.reason : x \in seen} = FailureReasons

\* no transport-level credential and no cookie give a token, and the
\* Authorization header present is not "bearer <token>"
OnlyMalformedHeader ==
    /\ found # Raised(0, "pending")
    /\ Falsy(oauth2_scheme(xreq.header))
    /\ (Falsy(xreq.cookie) \/ ReplaceBearer(xreq.cookie.val) = << >>)
    /\ xreq.header.present
    /\ ~WellFormed(xreq.header)

\* C7 as claimed: every malformed Authorization header ends the search with
\* one error, the one of a wrong scheme, which is not 'no token found'.
C7_OneMalformedError ==
    OnlyMalformedHeader => found = Raised(400, "Invalid authentication scheme")

\* C7 as amended: a header of exactly two parts with a scheme other than
\* bearer ends the search with 400 'Invalid authentication scheme'; a header
\* with another number of parts ends it like 'no token found'.
C7_MalformedHeader ==
    OnlyMalformedHeader =>
        IF Len(Parts(xreq.header)) = 2
        THEN found = Raised(400, "Invalid authentication scheme")
        ELSE found = credentials_exception

\* C7 witness: a two-part header with a wrong scheme was refused with 400.
C7_Witness ==
    /\ OnlyMalformedHeader
    /\ Len(Parts(xreq.header)) = 2
    /\ found.status = 400

\* C8: a token issued without expires_delta expires 30 minutes after it was
\* issued, one issued with expires_delta t expires t after it was issued.
C8_Expiry ==
    tok.has =>
        tok.token.exp = tok.iat + (IF tok.delta.given THEN tok.delta.minutes
                                   ELSE ACCESS_TOKEN_EXPIRE_MINUTES)

\* C9: create_user for an email without an account returns an id;
\* authenticate_user returns the account of the email exactly when an account
\* of that email was created with that password.
C9_Credentials ==
    /\ dbres.op = "create" /\ dbres.fresh => dbres.ok /\ dbres.id # 0
    /\ dbres.op = "auth" =>
          /\ dbres.ok <=> <<dbres.email, dbres.pw>> \in plain
          /\ dbres.ok => dbres.user.email = dbres.email

\* C9 witness: two accounts exist and authenticate_user has returned the
\* account of the email asked for.
C9_Witness ==
    /\ dbres.op = "auth"
    /\ dbres.ok
    /\ dbres.user.email = dbres.email
    /\ Cardinality(users) > 1

\* C10: POST /signup for an email without an account creates the account and
\* sets the access_token cookie to a token for that email, and the request for
\* the current user that presents the cookie is answered with that email.
C10_SignupFlow ==
    /\ hreq.route = "signup" /\ hreq.fresh =>
          /\ resp.status = 303
          /\ resp.set_access_token = BearerCookie(create_access_token(
                 hreq.email, Delta(ACCESS_TOKEN_EXPIRE_MINUTES), now))
          /\ \E u \in users : u.email = hreq.email
    /\ hreq.route = "me" /\ jar.present =>
          resp.status = 200 /\ resp.user = jar.val[Len(jar.val)].sub

\* C11: under any interleaving of signups at most one account exists per
\* email, and a signup for an email that already has an account is answered
\* with a conflict error, leaves that account as it was and sets no cookie
ConflictDetails == {"Email already registered", "Email already exists"}
C11_EmailUniqueness ==
    /\ \A u1, u2 \in users : u1.email = u2.email => u1 = u2
    /\ \A r \in 1..NumRequests :
          (sreq[r].pc = "done" /\ sreq[r].existed) =>
              /\ sreq[r].resp.detail \in ConflictDetails
              /\ sreq[r].kept
              /\ ~sreq[r].resp.set_access_token.present

\* the text after the "/remember " prefix, its '=' characters, and the text
\* on either side of the first of them
Remainder(prompt) == SubSeq(prompt, Len(REMEMBER_PREFIX) + 1, Len(prompt))
Equals(text) == {i \in 1..Len(text) : text[i] = "="}
LeftOf(text) == SubSeq(text, 1, (CHOOSE i \in Equals(text) : TRUE) - 1)
RightOf(text) == SubSeq(text, (CHOOSE i \in Equals(text) : TRUE) + 1, Len(text))
Profile1 == <<"profile", 1>>

\* C12: a prompt that starts with "/remember " and whose remainder has zero
\* or at least two '=' yields the usage error and leaves the memory and the
\* file unchanged; with exactly one '=' the trimmed left part is stored as
\* key with the trimmed right part as value
C12_Remember ==
    (turn.done /\ startswith(turn.prompt, REMEMBER_PREFIX)) =>
        LET rest == Remainder(turn.prompt)
        IN  IF Cardinality(Equals(rest)) # 1
            THEN /\ Shown("error", <<"Use format: /remember key=value">>) \in {turn.shown[i] : i \in 1..Len(turn.shown)}
                 /\ store[1].data = turn.dataBefore
                 /\ file = turn.fileBefore
            ELSE /\ get_all(store[1]) =
                        Put(GetOr(turn.dataBefore, Profile1),
                            str_strip(LeftOf(rest)), str_strip(RightOf(rest)))
                 /\ file = json_dump(store[1].data)

\* the prompts the text channel treats as directives
IsDirective(prompt) ==
    \/ startswith(prompt, REMEMBER_PREFIX)
    \/ str_lower(str_strip(prompt)) \in {CLEAR_COMMAND, SHOW_COMMAND}

\* C13: a turn whose prompt is a directive makes no call of the inference
\* engine, whatever the model-ready state; a turn makes at most one call
C13_DirectivesStayLocal ==
    /\ turn.calls <= 1
    /\ (turn.n > 0 /\ IsDirective(turn.prompt)) => turn.calls = 0

\* a directive that is not typed exactly as the command, handled while
\* the model is loaded
C13_Witness ==
    /\ turn.done /\ turn.ready /\ turn.calls = 0
    /\ IsDirective(turn.prompt)
    /\ turn.prompt \notin {CLEAR_COMMAND, SHOW_COMMAND}
    /\ ~startswith(turn.prompt, REMEMBER_PREFIX)

\* the reply mentions a failure word in some letter case
Mentions(reply) ==
    \E i \in 1..Len(FAILURE_KEYWORDS) : str_in(FAILURE_KEYWORDS[i], str_lower(reply))
Texts(shown) == {shown[i].text : i \in 1..Len(shown)}

\* C17: a reply that contains "error", "apologize" or "sorry" in any letter
\* case fails the turn: the retry message is shown, the reply is neither
\* shown nor recorded; any other reply is shown and recorded as it is
C17_ReplyValidation ==
    (turn.done /\ turn.outcome # "none") =>
        IF Mentions(turn.reply)
        THEN /\ turn.shown = <<Shown("error", <<"I encountered an issue generating a response. Please try again or rephrase your question.">>)>>
             /\ messages = Append(turn.before, Message("user", turn.prompt))
        ELSE /\ turn.shown = <<Shown("markdown", turn.reply)>>
             /\ messages = turn.before \o <<Message("user", turn.prompt),
                                            Message("assistant", turn.reply)>>

\* a reply that has a failure word only when lower-cased has been rejected
C17_Witness ==
    /\ turn.done /\ turn.outcome = "text"
    /\ Mentions(turn.reply)
    /\ ~is_failure_as_written(turn.reply)
    /\ turn.shown = <<Shown("error", <<"I encountered an issue generating a response. Please try again or rephrase your question.">>)>>

\* C18: when the inference call of a pass-through turn fails with an
\* exception, nothing propagates out of the turn, the user sees an error, the
\* error is recorded as the assistant entry of the turn, and the session is
\* ready for the next turn
C18_ExceptionsContained ==
    (turn.done /\ turn.outcome = "raise") =>
        /\ cpc = "idle"
        /\ \E i \in 1..Len(turn.shown) : turn.shown[i].widget = "error"
        /\ Len(messages) = Len(turn.before) + 2
        /\ messages[Len(messages) - 1] = Message("user", turn.prompt)
        /\ messages[Len(messages)].role = "assistant"

\* C19: every pass-through turn completes, also when the inference engine
\* never returns
C19_TurnsComplete == (cpc = "calling") ~> (cpc = "idle")

\* the turns handled so far, in arrival order
Completed ==
    IF turn.n = 0 THEN << >>
    ELSE IF turn.done
    THEN Append(turn.log, [profile |-> turn.profile, prompt |-> turn.prompt,
                           kind |-> turn.kind, ready |-> turn.ready,
                           outcome |-> turn.outcome, reply |-> turn.reply,
                           shown |-> turn.shown])
    ELSE turn.log

\* C20: once the turns so far are completed the transcript holds, for each
\* of them in order, the user's message and then one assistant entry (the
\* local response of a directive, the model's text on success, a failure
\* entry otherwise); the user entry is there before the inference call, and
\* no assistant entry is without its user entry
C20_TranscriptComplete ==
    /\ \A i \in 1..Len(messages) :
          messages[i].role = "assistant" => (i > 1 /\ messages[i - 1].role = "user")
    /\ cpc = "calling" =>
          (messages # << >> /\ messages[Len(messages)] = Message("user", turn.prompt))
    /\ (cpc = "idle" /\ (turn.n = 0 \/ turn.done)) =>
          /\ Len(messages) = 2 * Len(Completed)
          /\ \A i \in 1..Len(Completed) :
                /\ messages[2 * i - 1] = Message("user", Completed[i].prompt)
                /\ messages[2 * i].role = "assistant"
                /\ Completed[i].kind # "chat" =>
                      messages[2 * i].content \in Texts(Completed[i].shown)
                /\ (Completed[i].outcome = "text" /\ ~Mentions(Completed[i].reply)) =>
                      messages[2 * i].content = Completed[i].reply

\* the registry order of the specification, and the handler registered
\* under a keyword
DocumentedOrder ==
    <<<<"h", "e", "l", "p">>, <<"c", "l", "e", "a", "r">>, <<"r", "e", "m", "e", "m", "b", "e", "r">>, <<"d", "a", "s", "h", "b", "o", "a", "r", "d">>,
      <<"s", "e", "t", "t", "i", "n", "g", "s">>, <<"a", "n", "a", "l", "y", "t", "i", "c", "s">>, <<"c", "h", "a", "t">>, <<"s", "a", "v", "e">>,
      <<"e", "x", "p", "o", "r", "t">>, <<"b", "u", "d", "g", "e", "t">>,
      <<"i", "n", "v", "e", "s", "t">>, <<"s", "a", "v", "i", "n", "g", "s">>,
      <<"e", "x", "p", "e", "n", "s", "e", "s">>>>
Contained(text) == {i \in 1..Len(DocumentedOrder) : str_in(DocumentedOrder[i], text)}
FirstContained(text) == CHOOSE i \in Contained(text) : \A j \in Contained(text) : i <= j
HandlerOf(keyword) ==
    commands[CHOOSE i \in 1..Len(commands) : commands[i].keyword = keyword].handler

C15_FinancialHelp ==
    voice.n > 0 =>
        /\ voice.text = <<"b", "u", "d", "g", "e", "t", " ", "h", "e", "l", "p">> =>
              voice.response.text = <<"Budgeting Tips">>
        /\ voice.text = <<"i", "n", "v", "e", "s", "t", "m", "e", "n", "t", " ", "h", "e", "l", "p">> =>
              voice.response.text = <<"Investment Basics">>
        /\ voice.text = <<"s", "a", "v", "i", "n", "g", "s", " ", "h", "e", "l", "p">> =>
              voice.response.text = <<"Savings Strategies">>
        /\ voice.text = <<"e", "x", "p", "e", "n", "s", "e", "s", " ", "h", "e", "l", "p">> =>
              voice.response.text = <<"Expense Management">>

\* C16: "what do you remember", said in a session that has a memory, returns
\* the stored memories, or the message that none are stored, leaves the
\* mapping and the file unchanged and is not taken as a request to store
C16_VoiceMemoryDisplay ==
    (voice.n > 0 /\ voice.had_memory /\ voice.text = SubSeq(SHOW_COMMAND, 1, Len(SHOW_COMMAND) - 1)) =>
        /\ voice.response = IF voice.before # EmptyDict
                            THEN [present |-> TRUE, text |-> <<"Stored memories: ">>, data |-> voice.before]
                            ELSE [present |-> TRUE, text |-> <<"No memories stored yet">>, data |-> EmptyDict]
        /\ voice.handler # "remember_info"
        /\ store[1].data = voice.dataBefore
        /\ file = voice.fileBefore


\* C22: at every instant the backing file holds the complete collection from
\* before the mutation in progress or the complete one from after it, also
\* when the process has stopped in the middle of a set or clear; a store
\* rebuilt after such a stop holds, for every profile the mutation did not
\* touch, the mapping from before it.
C22_AtomicPersistence ==
    /\ \A s \in Sessions :
          mpc[s] = "dump" => file \in {op[s].fileBefore, json_dump(store[s].data)}
    /\ (last.op = "crashed" /\ \A s \in Sessions : mpc[s] = "none") =>
          /\ _load(file).ok
          /\ \A p \in Profiles \ {last.profile} :
                Reloaded(p) = GetOr(last.dataBefore, p)

\* C23: a store built while the file is absent holds the empty collection and
\* the file is still absent; while the file holds content that is not a JSON
\* document no store is built, the construction ends in an error, and the
\* file stays as it is.
C23_LoadOutcomes ==
    [][\A s \in Sessions :
        /\ (mpc[s] = "none" /\ mpc'[s] = "idle") =>
              /\ file.kind # "partial"
              /\ file' = file
              /\ file = AbsentFile => store'[s].data = EmptyDict
        /\ (file.kind = "partial" /\ \A x \in Sessions : mpc[x] = "none") =>
              /\ file' = file
              /\ mpc' = mpc
              /\ last'.op \in {last.op, "load_error"}
      ]_vars

\* C23 witness: after a stop in the middle of a save the file is unreadable,
\* a construction has failed, and the session has no store.
C23_Witness ==
    /\ last.op = "load_error"
    /\ file.kind = "partial"
    /\ last.fileBefore = file
    /\ mpc[last.sess] = "none"
    /\ store[last.sess] = NoStore

\* C26: when the write of the file has failed during set or clear, get_all of
\* the store is the mapping from before the call, and the collection in
\* memory is the one the file holds.
C26_FailedWrite ==
    (last.op \in {"set_failed", "clear_failed"} /\ mpc[last.sess] = "idle") =>
        /\ get_all(store[last.sess]) = last.before
        /\ _load(file).ok
        /\ _load(file).data = store[last.sess].data

C25_TurnProfile ==
    [][(chat_input.present /\ ~chat_input'.present) =>
          LET kind  == classify(chat_input.val)
              mine  == GetOr(store[1].data, profile_id)
              mine2 == GetOr(store'[1].data, profile_id)
          IN  /\ \A q \in Profiles \ {profile_id} :
                    GetOr(store'[1].data, q) = GetOr(store[1].data, q)
              /\ chat_input.val = REMEMBER_PREFIX \o <<"j", "=", "w">> =>
                    /\ <<"j">> \in DOMAIN mine2
                    /\ mine2[<<"j">>] = <<"w">>
              /\ kind = "clear" => mine2 = EmptyDict
              /\ kind = "show" =>
                    \A i \in 1..Len(turn'.shown) :
                        turn'.shown[i].widget = "json" => turn'.shown[i].data = mine
              /\ turn'.calls = 1 => turn'.context = mine
      ]_vars

====
